---- MODULE Spec2Model ----
(***************************************************************************)
(* gpu_load_cl: OpenCL load generator.  main enumerates the Intel GPU      *)
(* devices, starts one std::thread per device running run_load_on_device,  *)
(* and joins them.  Every OpenCL call is a step whose result the OpenCL    *)
(* runtime chooses.  An exception that leaves run_load_on_device is        *)
(* uncaught in its std::thread, so std::terminate ends the process.        *)
(***************************************************************************)
EXTENDS Integers, Sequences, FiniteSets, TLC

\* ---- bounds ----
MaxPlatforms == 1
MaxGpus == 2
MaxDispatch == 2

\* ---- cl_int results ----
CL_SUCCESS == "CL_SUCCESS"
CL_DEVICE_NOT_FOUND == "CL_DEVICE_NOT_FOUND"
CL_OUT_OF_RESOURCES == "CL_OUT_OF_RESOURCES"

\* results of a call that cannot report CL_DEVICE_NOT_FOUND
ClResult == {CL_SUCCESS, CL_OUT_OF_RESOURCES}
\* results of clGetDeviceIDs
ClDeviceResult == {CL_SUCCESS, CL_DEVICE_NOT_FOUND, CL_OUT_OF_RESOURCES}

Idx == 0 .. (MaxGpus - 1)
Kinds == {"context", "queue", "program", "kernel", "buffer"}
NULL == <<"NULL", "", 0 - 1>>
NoArgs == <<0, 0, 0 - 1>>
NoThrow == "none"

Has(s, x) == \E k \in 1 .. Len(s) : s[k] = x
Range(s) == {s[k] : k \in 1 .. Len(s)}
IsPrefix(s, t) == Len(s) <= Len(t) /\ \A k \in 1 .. Len(s) : s[k] = t[k]

VARIABLES
    mpc,           \* main's position
    platforms,     \* the part of the platforms vector the range-for has not visited yet
    plat,          \* the platform the enumeration loop is at; 0 outside the loop
    numDevices,    \* num_devices of the current platform; 0 outside its scope
    gpus,          \* intel_gpus_with_platforms
    started,       \* threads.size()
    device_idx_counter,
    joined,        \* number of threads main has joined
    exit,          \* "running", "exit0", "exit1", "terminate"
    mlog,          \* lines main wrote to cout/cerr
    rpc,           \* position of each runner thread
    rarg,          \* arguments a runner was started with
    res,           \* a runner's local handles
    made,          \* objects a runner created, in order
    released,      \* objects a runner released, in order
    qtry,          \* results of the queue-creation calls of a runner
    pending,       \* queues with a submitted, not yet completed kernel
    enqueues,      \* clEnqueueNDRangeKernel calls made by a runner
    finishes,      \* clFinish calls made by a runner
    what,          \* operation named by the exception a runner threw
    rlog           \* lines a runner wrote to cout/cerr

mainVars == <<mpc, platforms, plat, numDevices, gpus, started, device_idx_counter, joined, mlog>>
runVars == <<rpc, rarg, res, made, released, qtry, pending, enqueues, finishes, what, rlog>>
vars == <<mpc, platforms, plat, numDevices, gpus, started, device_idx_counter, joined, exit, mlog,
          rpc, rarg, res, made, released, qtry, pending, enqueues, finishes, what, rlog>>

\* ---- check_cl_error ----
check_cl_error(err, operation) ==
    IF err # CL_SUCCESS THEN operation ELSE NoThrow

Init ==
    /\ mpc = "platform_count"
    /\ platforms = <<>>
    /\ plat = 0
    /\ numDevices = 0
    /\ gpus = <<>>
    /\ started = 0
    /\ device_idx_counter = 0
    /\ joined = 0
    /\ exit = "running"
    /\ mlog = <<>>
    /\ rpc = [i \in Idx |-> "unstarted"]
    /\ rarg = [i \in Idx |-> NoArgs]
    /\ res = [i \in Idx |-> [k \in Kinds |-> NULL]]
    /\ made = [i \in Idx |-> <<>>]
    /\ released = [i \in Idx |-> <<>>]
    /\ qtry = [i \in Idx |-> <<>>]
    /\ pending = [i \in Idx |-> <<>>]
    /\ enqueues = [i \in Idx |-> 0]
    /\ finishes = [i \in Idx |-> 0]
    /\ what = [i \in Idx |-> NoThrow]
    /\ rlog = [i \in Idx |-> <<>>]

\* ======================= main =======================

\* MainCatch with a handler that reports and returns 0
MainCatch_status0(operation) ==
    /\ mlog' = Append(mlog, <<"OpenCL Runtime Error", operation>>)
    /\ exit' = "exit0"
    /\ mpc' = "returned"

\* main's catch (const std::runtime_error&): report and return 1
MainCatch(operation) ==
    /\ mlog' = Append(mlog, <<"OpenCL Runtime Error", operation>>)
    /\ exit' = "exit1"
    /\ mpc' = "returned"

\* err != CL_SUCCESS || num_platforms == 0
PlatformQueryFatal(err, n) == err # CL_SUCCESS \/ n = 0

\* clGetPlatformIDs(0, nullptr, &num_platforms)
GetPlatformCount ==
    /\ exit = "running" /\ mpc = "platform_count"
    /\ \E err \in ClResult, n \in 0 .. MaxPlatforms :
         IF PlatformQueryFatal(err, n)
         THEN /\ mlog' = Append(mlog, <<"Failed to find any OpenCL platforms", err>>)
              /\ exit' = "exit1"
              /\ mpc' = "returned"
              /\ UNCHANGED platforms
         ELSE /\ platforms' = [k \in 1 .. n |-> k]
              /\ mpc' = "platform_list"
              /\ UNCHANGED <<mlog, exit>>
    /\ UNCHANGED <<plat, numDevices, gpus, started, device_idx_counter, joined>>
    /\ UNCHANGED runVars

\* the head of "for (cl_platform_id platform : platforms)", reached on entry
\* and at the end of each body: the loop goes to the next platform, or is over
AfterPlatform(rest) == IF rest = <<>> THEN "check_empty" ELSE "vendor"
NextPlatform(rest) == IF rest = <<>> THEN 0 ELSE Head(rest)
RestPlatforms(rest) == IF rest = <<>> THEN <<>> ELSE Tail(rest)

EndOfBody ==
    /\ mpc' = AfterPlatform(platforms)
    /\ plat' = NextPlatform(platforms)
    /\ platforms' = RestPlatforms(platforms)

\* clGetPlatformIDs(num_platforms, platforms.data(), nullptr); check_cl_error
GetPlatformList ==
    /\ exit = "running" /\ mpc = "platform_list"
    /\ \E err \in ClResult :
         LET thrown == check_cl_error(err, "clGetPlatformIDs") IN
         IF thrown # NoThrow
         THEN /\ MainCatch(thrown)
              /\ UNCHANGED <<plat, platforms>>
         ELSE /\ EndOfBody
              /\ UNCHANGED <<mlog, exit>>
    /\ UNCHANGED <<numDevices, gpus, started, device_idx_counter, joined>>
    /\ UNCHANGED runVars

\* clGetPlatformInfo(CL_PLATFORM_VENDOR) and the search for "Intel"/"intel";
\* the runtime decides what the vendor string holds
EnumVendor ==
    /\ exit = "running" /\ mpc = "vendor"
    /\ \E isIntel \in BOOLEAN :
         IF isIntel
         THEN mpc' = "device_count" /\ UNCHANGED <<plat, platforms>>
         ELSE EndOfBody
    /\ UNCHANGED <<numDevices, gpus, started, device_idx_counter, joined, mlog, exit>>
    /\ UNCHANGED runVars

\* what the loop body does with the result of the device-count query
CountOutcome(err, n) ==
    IF err = CL_DEVICE_NOT_FOUND THEN "skip"
    ELSE IF err # CL_SUCCESS THEN "warn_skip"
    ELSE IF n > 0 THEN "list"
    ELSE "skip"

\* clGetDeviceIDs(platform, CL_DEVICE_TYPE_GPU, 0, nullptr, &num_devices)
EnumDeviceCount ==
    /\ exit = "running" /\ mpc = "device_count"
    /\ \E err \in ClDeviceResult, n \in 0 .. (MaxGpus - Len(gpus)) :
         LET o == CountOutcome(err, n) IN
         /\ mlog' = IF o = "warn_skip"
                    THEN Append(mlog, <<"Warning: clGetDeviceIDs (count)", err>>)
                    ELSE mlog
         /\ IF o = "list"
            THEN numDevices' = n /\ mpc' = "device_list" /\ UNCHANGED <<plat, platforms>>
            ELSE EndOfBody /\ UNCHANGED numDevices
    /\ UNCHANGED <<gpus, started, device_idx_counter, joined, exit>>
    /\ UNCHANGED runVars

\* the pairs pushed for the devices of platform p
PlatformDevices(p, n) == [d \in 1 .. n |-> <<p, d>>]

\* clGetDeviceIDs(platform, CL_DEVICE_TYPE_GPU, num_devices, devices.data(), nullptr);
\* check_cl_error; push_back of every device
EnumDeviceList ==
    /\ exit = "running" /\ mpc = "device_list"
    /\ \E err \in ClResult :
         LET thrown == check_cl_error(err, "clGetDeviceIDs (list)") IN
         IF thrown # NoThrow
         THEN /\ MainCatch(thrown)
              /\ UNCHANGED <<plat, platforms, gpus, numDevices>>
         ELSE /\ gpus' = gpus \o PlatformDevices(plat, numDevices)
              /\ EndOfBody
              /\ numDevices' = 0
              /\ UNCHANGED <<mlog, exit>>
    /\ UNCHANGED <<started, device_idx_counter, joined>>
    /\ UNCHANGED runVars

\* if (intel_gpus_with_platforms.empty()) ... return 1; else report the count
CheckDevices ==
    /\ exit = "running" /\ mpc = "check_empty"
    /\ IF gpus = <<>>
       THEN /\ mlog' = Append(mlog, <<"No Intel GPUs found via OpenCL", "">>)
            /\ exit' = "exit1"
            /\ mpc' = "returned"
       ELSE /\ mlog' = Append(mlog, <<"Found Intel GPU(s) via OpenCL", "">>)
            /\ mpc' = "spawn"
            /\ UNCHANGED exit
    /\ UNCHANGED <<platforms, plat, numDevices, gpus, started, device_idx_counter, joined>>
    /\ UNCHANGED runVars

\* LoopPair with every thread given the first pair
LoopPair_first(g, n) == g[1]

\* the pair the start loop is at when n threads exist
LoopPair(g, n) == g[n + 1]

\* threads.emplace_back(run_load_on_device, pair.first, pair.second, device_idx_counter++)
\* and the stagger sleep
Spawn ==
    /\ exit = "running" /\ mpc = "spawn" /\ started < Len(gpus)
    /\ rpc' = [rpc EXCEPT ![started] = "context"]
    /\ rarg' = [rarg EXCEPT ![started] =
                   <<LoopPair(gpus, started)[1], LoopPair(gpus, started)[2], device_idx_counter>>]
    /\ device_idx_counter' = device_idx_counter + 1
    /\ started' = started + 1
    /\ mpc' = IF started + 1 = Len(gpus) THEN "join" ELSE "spawn"
    /\ UNCHANGED <<platforms, plat, numDevices, gpus, joined, mlog, exit>>
    /\ UNCHANGED <<res, made, released, qtry, pending, enqueues, finishes, what, rlog>>

\* the std::thread constructor throws std::system_error (a runtime_error):
\* unwinding destroys "threads"; a joinable element calls std::terminate,
\* otherwise main's catch returns 1
SpawnFail ==
    /\ exit = "running" /\ mpc = "spawn" /\ started < Len(gpus)
    /\ IF started = 0
       THEN MainCatch("std::thread")
       ELSE exit' = "terminate" /\ UNCHANGED <<mpc, mlog>>
    /\ UNCHANGED <<platforms, plat, numDevices, gpus, started, device_idx_counter, joined>>
    /\ UNCHANGED runVars

\* JoinReady with threads that are not waited for
JoinReady_detached(t) == TRUE

\* t.join() returns once thread t has returned from run_load_on_device
JoinReady(t) == rpc[t] = "returned"

\* if (t.joinable()) t.join();
Join ==
    /\ exit = "running" /\ mpc = "join" /\ joined < started
    /\ JoinReady(joined)
    /\ joined' = joined + 1
    /\ mpc' = IF joined + 1 = started THEN "return0" ELSE "join"
    /\ UNCHANGED <<platforms, plat, numDevices, gpus, started, device_idx_counter, mlog, exit>>
    /\ UNCHANGED runVars

\* return 0;
Return0 ==
    /\ exit = "running" /\ mpc = "return0"
    /\ exit' = "exit0"
    /\ mpc' = "returned"
    /\ UNCHANGED <<platforms, plat, numDevices, gpus, started, device_idx_counter, joined, mlog>>
    /\ UNCHANGED runVars

\* ======================= run_load_on_device =======================

\* the object a successful clCreate* call made by the thread in slot t returns
NewObject(kind, api, t) == <<kind, api, t>>

\* an exception leaves run_load_on_device: nothing in the thread catches it,
\* so std::terminate ends the process
Throw(t, operation) ==
    /\ rpc' = [rpc EXCEPT ![t] = "threw"]
    /\ what' = [what EXCEPT ![t] = operation]
    /\ exit' = "terminate"

\* a clCreate* call followed by check_cl_error
CreateStep(t, at, next, kind, api) ==
    /\ exit = "running" /\ rpc[t] = at
    /\ \E err \in ClResult :
         LET thrown == check_cl_error(err, api) IN
         IF thrown # NoThrow
         THEN /\ Throw(t, thrown)
              /\ UNCHANGED <<res, made>>
         ELSE /\ res' = [res EXCEPT ![t][kind] = NewObject(kind, api, t)]
              /\ made' = [made EXCEPT ![t] = Append(@, kind)]
              /\ rpc' = [rpc EXCEPT ![t] = next]
              /\ UNCHANGED <<what, exit>>
    /\ UNCHANGED <<rarg, released, qtry, pending, enqueues, finishes, rlog>>
    /\ UNCHANGED mainVars

\* clGetDeviceInfo(CL_DEVICE_NAME), the "Starting load on Device" line,
\* clCreateContext, check_cl_error
CreateContext(t) ==
    /\ exit = "running" /\ rpc[t] = "context"
    /\ rlog' = [rlog EXCEPT ![t] = Append(@, "Starting load on Device")]
    /\ \E err \in ClResult :
         LET thrown == check_cl_error(err, "clCreateContext") IN
         IF thrown # NoThrow
         THEN /\ Throw(t, thrown)
              /\ UNCHANGED <<res, made>>
         ELSE /\ res' = [res EXCEPT ![t]["context"] =
                            NewObject("context", "clCreateContext", t)]
              /\ made' = [made EXCEPT ![t] = Append(@, "context")]
              /\ rpc' = [rpc EXCEPT ![t] = "queue"]
              /\ UNCHANGED <<what, exit>>
    /\ UNCHANGED <<rarg, released, qtry, pending, enqueues, finishes>>
    /\ UNCHANGED mainVars

\* QueueErr without the fallback: the result of the WithProperties call decides
QueueErr_nofallback(modern, legacy) == modern

\* err after the queue-creation calls: the legacy call runs, and overwrites
\* err, only when the WithProperties call failed
QueueErr(modern, legacy) == IF modern # CL_SUCCESS THEN legacy ELSE modern

\* the value of "queue" after the queue-creation calls
QueueObject(t, modern, legacy) ==
    IF modern = CL_SUCCESS THEN NewObject("queue", "clCreateCommandQueueWithProperties", t)
    ELSE IF legacy = CL_SUCCESS THEN NewObject("queue", "clCreateCommandQueue", t)
    ELSE NULL

\* clCreateCommandQueueWithProperties, the fallback to clCreateCommandQueue,
\* check_cl_error
CreateQueue(t) ==
    /\ exit = "running" /\ rpc[t] = "queue"
    /\ \E modern \in ClResult, legacy \in ClResult :
         LET thrown == check_cl_error(QueueErr(modern, legacy),
                                      "clCreateCommandQueue(WithProperties)")
         IN
         \* the legacy call is made only after a failed WithProperties call
         /\ modern = CL_SUCCESS => legacy = CL_SUCCESS
         /\ qtry' = [qtry EXCEPT ![t] =
                        IF modern = CL_SUCCESS THEN <<modern>> ELSE <<modern, legacy>>]
         /\ rlog' = [rlog EXCEPT ![t] =
                        IF modern # CL_SUCCESS
                        THEN Append(@, "clCreateCommandQueueWithProperties failed, trying clCreateCommandQueue")
                        ELSE @]
         /\ res' = [res EXCEPT ![t]["queue"] = QueueObject(t, modern, legacy)]
         /\ IF thrown # NoThrow
            THEN /\ Throw(t, thrown)
                 /\ UNCHANGED made
            ELSE /\ made' = [made EXCEPT ![t] = Append(@, "queue")]
                 /\ rpc' = [rpc EXCEPT ![t] = "program"]
                 /\ UNCHANGED <<what, exit>>
    /\ UNCHANGED <<rarg, released, pending, enqueues, finishes>>
    /\ UNCHANGED mainVars

\* clCreateProgramWithSource; check_cl_error
CreateProgram(t) ==
    CreateStep(t, "program", "build", "program", "clCreateProgramWithSource")

\* clBuildProgram; on failure the build log is printed and check_cl_error throws
BuildProgram(t) ==
    /\ exit = "running" /\ rpc[t] = "build"
    /\ \E err \in ClResult :
         IF err # CL_SUCCESS
         THEN /\ rlog' = [rlog EXCEPT ![t] = Append(@, "Kernel build log")]
              /\ Throw(t, check_cl_error(err, "clBuildProgram"))
         ELSE /\ rpc' = [rpc EXCEPT ![t] = "kernel"]
              /\ UNCHANGED <<rlog, what, exit>>
    /\ UNCHANGED <<rarg, res, made, released, qtry, pending, enqueues, finishes>>
    /\ UNCHANGED mainVars

\* clCreateKernel; check_cl_error
CreateKernel(t) == CreateStep(t, "kernel", "buffer", "kernel", "clCreateKernel")

\* host_data is filled; clCreateBuffer; check_cl_error
CreateBuffer(t) == CreateStep(t, "buffer", "arg_buffer", "buffer", "clCreateBuffer")

\* clSetKernelArg(kernel, 0, ..., &buffer); check_cl_error
SetArgBuffer(t) ==
    /\ exit = "running" /\ rpc[t] = "arg_buffer"
    /\ \E err \in ClResult :
         LET thrown == check_cl_error(err, "clSetKernelArg(buffer)") IN
         IF thrown # NoThrow
         THEN Throw(t, thrown)
         ELSE /\ rpc' = [rpc EXCEPT ![t] = "arg_count"]
              /\ UNCHANGED <<what, exit>>
    /\ UNCHANGED <<rarg, res, made, released, qtry, pending, enqueues, finishes, rlog>>
    /\ UNCHANGED mainVars

\* clSetKernelArg(kernel, 1, ..., &count_arg); check_cl_error;
\* the "Entering continuous kernel execution loop" line
SetArgCount(t) ==
    /\ exit = "running" /\ rpc[t] = "arg_count"
    /\ \E err \in ClResult :
         LET thrown == check_cl_error(err, "clSetKernelArg(count)") IN
         IF thrown # NoThrow
         THEN /\ Throw(t, thrown)
              /\ UNCHANGED rlog
         ELSE /\ rpc' = [rpc EXCEPT ![t] = "enqueue"]
              /\ rlog' = [rlog EXCEPT ![t] =
                             Append(@, "Entering continuous kernel execution loop")]
              /\ UNCHANGED <<what, exit>>
    /\ UNCHANGED <<rarg, res, made, released, qtry, pending, enqueues, finishes>>
    /\ UNCHANGED mainVars

\* AfterEnqueue with the failure reported through check_cl_error
AfterEnqueue_throws(err) == IF err # CL_SUCCESS THEN "threw" ELSE "finish"

\* AfterEnqueue with the next submission made before the completion wait
AfterEnqueue_pipelined(err) == IF err # CL_SUCCESS THEN "returned" ELSE "enqueue"

\* where the thread is after clEnqueueNDRangeKernel returned err: a failure
\* breaks out of the loop, and the code after the loop runs to the return
AfterEnqueue(err) == IF err # CL_SUCCESS THEN "returned" ELSE "finish"

\* AfterFinish with a loop that goes on after a failed wait
AfterFinish_retry(err) == "enqueue"

\* where the thread is after clFinish returned err
AfterFinish(err) == IF err # CL_SUCCESS THEN "returned" ELSE "enqueue"

\* the process after a step that takes a thread to pc: an exception that
\* leaves the thread function calls std::terminate
ProcessAfter(pc) == IF pc = "threw" THEN "terminate" ELSE exit

\* the release calls after the loop, in program order: clReleaseMemObject,
\* clReleaseKernel, clReleaseProgram, clReleaseCommandQueue, clReleaseContext
ReleaseOrder == <<"buffer", "kernel", "program", "queue", "context">>

\* the objects released once the thread is at pc
ReleasedAt(pc, rel) == IF pc = "returned" THEN rel \o ReleaseOrder ELSE rel

\* the lines written by a call of the loop that returned err and took the
\* thread to pc: the error; "Exited kernel execution loop" and "Finished load
\* and cleaned up" around the release calls
LoopLines(log, api, err, pc) ==
    (IF err # CL_SUCCESS THEN Append(log, api \o " failed") ELSE log)
    \o (IF pc = "returned"
        THEN <<"Exited kernel execution loop", "Finished load and cleaned up">>
        ELSE <<>>)

\* the commands left on a queue list once clFinish(q) succeeded
Completed(p, q) == SelectSeq(p, LAMBDA c : c # q)

\* the clEnqueueNDRangeKernel calls made so far by the runners of slots 0 .. n-1
RECURSIVE TotalEnqueues(_)
TotalEnqueues(n) == IF n = 0 THEN 0 ELSE enqueues[n - 1] + TotalEnqueues(n - 1)

\* err = clEnqueueNDRangeKernel(queue, kernel, ...); on failure: the error
\* line, break, the release calls and the return.
\* A run is followed for MaxDispatch submissions.
Enqueue(t) ==
    /\ exit = "running" /\ rpc[t] = "enqueue"
    /\ TotalEnqueues(MaxGpus) < MaxDispatch
    /\ \E err \in ClResult :
         LET pc == AfterEnqueue(err) IN
         /\ enqueues' = [enqueues EXCEPT ![t] = @ + 1]
         /\ pending' = [pending EXCEPT ![t] =
                           IF err = CL_SUCCESS THEN Append(@, res[t]["queue"]) ELSE @]
         /\ rlog' = [rlog EXCEPT ![t] = LoopLines(@, "clEnqueueNDRangeKernel", err, pc)]
         /\ released' = [released EXCEPT ![t] = ReleasedAt(pc, @)]
         /\ rpc' = [rpc EXCEPT ![t] = pc]
         /\ exit' = ProcessAfter(pc)
    /\ UNCHANGED <<rarg, res, made, qtry, finishes, what>>
    /\ UNCHANGED mainVars

\* err = clFinish(queue); on failure: the error line, break, the release
\* calls and the return
Finish(t) ==
    /\ exit = "running" /\ rpc[t] = "finish"
    /\ \E err \in ClResult :
         LET pc == AfterFinish(err) IN
         /\ finishes' = [finishes EXCEPT ![t] = @ + 1]
         /\ pending' = [pending EXCEPT ![t] =
                           IF err = CL_SUCCESS THEN Completed(@, res[t]["queue"]) ELSE @]
         /\ rlog' = [rlog EXCEPT ![t] = LoopLines(@, "clFinish", err, pc)]
         /\ released' = [released EXCEPT ![t] = ReleasedAt(pc, @)]
         /\ rpc' = [rpc EXCEPT ![t] = pc]
         /\ exit' = ProcessAfter(pc)
    /\ UNCHANGED <<rarg, res, made, qtry, enqueues, what>>
    /\ UNCHANGED mainVars

\* ======================= the program =======================

Runner(t) ==
    \/ CreateContext(t)
    \/ CreateQueue(t)
    \/ CreateProgram(t)
    \/ BuildProgram(t)
    \/ CreateKernel(t)
    \/ CreateBuffer(t)
    \/ SetArgBuffer(t)
    \/ SetArgCount(t)
    \/ Enqueue(t)
    \/ Finish(t)

Next ==
    \/ GetPlatformCount
    \/ GetPlatformList
    \/ EnumVendor
    \/ EnumDeviceCount
    \/ EnumDeviceList
    \/ CheckDevices
    \/ Spawn
    \/ SpawnFail
    \/ Join
    \/ Return0
    \/ \E t \in Idx : Runner(t)

Spec == Init /\ [][Next]_vars

\* ======================= properties =======================

InLoop(t) == rpc[t] \in {"enqueue", "finish"}
EnqueueFailed(t) == Has(rlog[t], "clEnqueueNDRangeKernel failed")
FinishFailed(t) == Has(rlog[t], "clFinish failed")
LoopFailed(t) == EnqueueFailed(t) \/ FinishFailed(t)
RunnerState(t) == <<rpc[t], rarg[t], res[t], made[t], released[t], qtry[t],
                    pending[t], enqueues[t], finishes[t], what[t], rlog[t]>>
LegacyQueue(t) == NewObject("queue", "clCreateCommandQueue", t)
FallbackNotice == "clCreateCommandQueueWithProperties failed, trying clCreateCommandQueue"

\* C1: when clBuildProgram fails for one device among two or more, only that
\* device's thread ends, after the build log was printed: the process keeps
\* running and every other runner is untouched.
C1_BuildFailureEndsOnlyItsThread ==
    \A d \in Idx :
        (Len(gpus) >= 2 /\ rpc[d] = "threw" /\ what[d] = "clBuildProgram")
        => /\ Has(rlog[d], "Kernel build log")
           /\ exit = "running"

\* C2: at most one thread per entry of the device list, thread t started with
\* entry t and index t; once the start loop is over there is exactly one thread
\* per entry and none is added; no object of one runner is held by another.
C2_OneRunnerPerDevice ==
    /\ started <= Len(gpus)
    /\ device_idx_counter = started
    /\ \A t \in Idx : (t < started) <=> (rpc[t] # "unstarted")
    /\ \A t \in Idx : t < started => rarg[t] = <<gpus[t + 1][1], gpus[t + 1][2], t>>
    /\ \A t, u \in Idx : (t # u /\ t < started /\ u < started) => rarg[t] # rarg[u]
    /\ (mpc \in {"join", "return0"} \/ exit = "exit0") => (started = Len(gpus) /\ started >= 1)
    /\ \A t, u \in Idx : \A k \in Kinds :
          (t # u /\ res[t][k] # NULL) => res[t][k] # res[u][k]

C2_Witness ==
    /\ Len(gpus) >= 2 /\ started = Len(gpus) /\ mpc = "join"
    /\ \A t \in Idx : t < started => (InLoop(t) /\ res[t]["buffer"] # NULL)

\* C3: zero platforms never gets past the platform-count query and zero devices
\* never gets to the start loop; whenever main has returned without a thread
\* started the status is 1, a report was written, and a run that exits with
\* status 1 has started no runner.
C3_GlobalFatalExitsBeforeAnyWorker ==
    /\ mpc = "platform_list" => Len(platforms) >= 1
    /\ mpc = "spawn" => gpus # <<>>
    /\ (mpc = "returned" /\ started = 0) => (exit = "exit1" /\ mlog # <<>>)
    /\ exit = "exit1" =>
          /\ started = 0
          /\ \A t \in Idx : rpc[t] = "unstarted"
          /\ mlog[Len(mlog)][1] \in {"Failed to find any OpenCL platforms",
                                     "OpenCL Runtime Error",
                                     "No Intel GPUs found via OpenCL"}
    /\ \A k \in 1 .. Len(mlog) :
          mlog[k][1] \in {"Failed to find any OpenCL platforms",
                          "OpenCL Runtime Error",
                          "No Intel GPUs found via OpenCL"}
          => (k = Len(mlog) /\ exit = "exit1")

C3_Witness ==
    /\ exit = "exit1"
    /\ Has(mlog, <<"No Intel GPUs found via OpenCL", "">>)
    /\ Has(mlog, <<"Warning: clGetDeviceIDs (count)", CL_OUT_OF_RESOURCES>>)

\* C4: the step in which a call of one runner's loop fails logs the error and
\* takes that runner out of its loop; it changes nothing of main, of the
\* process or of any other runner; and main never returns (status 0 or 1)
\* while a runner is in its loop.
C4_LoopFailureIsLocal ==
    [][/\ (\A t \in Idx :
          (LoopFailed(t)' /\ ~LoopFailed(t))
          => /\ InLoop(t) /\ ~InLoop(t)'
             /\ rpc'[t] = "returned"
             /\ exit' = exit /\ exit' = "running"
             /\ UNCHANGED mainVars
             /\ \A u \in Idx : u # t => RunnerState(u)' = RunnerState(u))
       /\ (exit' \in {"exit0", "exit1"} => \A u \in Idx : ~InLoop(u)')]_vars

C4_Witness ==
    \E t, u \in Idx :
        /\ t # u /\ exit = "running"
        /\ LoopFailed(t) /\ rpc[t] = "returned"
        /\ rpc[u] = "finish" /\ Len(pending[u]) = 1

\* C5: the queue-creation step throws exactly when both creation calls failed;
\* when only the WithProperties call failed the notice is logged, the runner
\* holds the legacy queue and goes on, and what it submits goes to that queue.
C5_LegacyQueueFallback ==
    \A t \in Idx :
        /\ (what[t] = "clCreateCommandQueue(WithProperties)")
              <=> (qtry[t] = <<CL_OUT_OF_RESOURCES, CL_OUT_OF_RESOURCES>>)
        /\ qtry[t] = <<CL_OUT_OF_RESOURCES, CL_SUCCESS>> =>
              /\ Has(rlog[t], FallbackNotice)
              /\ res[t]["queue"] = LegacyQueue(t)
              /\ Has(made[t], "queue")
              /\ \A k \in 1 .. Len(pending[t]) : pending[t][k] = LegacyQueue(t)
        /\ Has(rlog[t], FallbackNotice) => Len(qtry[t]) = 2

C5_Witness ==
    \E t \in Idx :
        /\ qtry[t] = <<CL_OUT_OF_RESOURCES, CL_SUCCESS>>
        /\ rpc[t] = "finish"
        /\ pending[t] = <<LegacyQueue(t)>>
        /\ exit = "running"

\* C6: a runner whose enqueue or completion wait failed is out of its loop for
\* good, having made no call after the failing one; with one device and a
\* first completion wait that fails, exactly one dispatch was submitted.
C6_NoRetryAfterLoopFailure ==
    \A t \in Idx :
        /\ LoopFailed(t) =>
              /\ rpc[t] = "returned"
              /\ Has(rlog[t], "Exited kernel execution loop")
              /\ ~(EnqueueFailed(t) /\ FinishFailed(t))
        /\ EnqueueFailed(t) => enqueues[t] = finishes[t] + 1
        /\ FinishFailed(t) => enqueues[t] = finishes[t]
        /\ (Len(gpus) = 1 /\ FinishFailed(t) /\ finishes[t] = 1) =>
              (t = 0 /\ enqueues[t] = 1 /\ pending[t] = <<res[t]["queue"]>>)

C6_Witness ==
    /\ Len(gpus) = 1 /\ FinishFailed(0)
    /\ enqueues[0] = 1 /\ finishes[0] = 1 /\ rpc[0] = "returned"

\* C7: status 0 only with every started runner returned and joined; a runner
\* returns only after a failure in its own loop; no status 0 while a runner loops.
C7_ExitZeroOnlyAfterAllLoopsFailed ==
    /\ exit = "exit0" =>
          /\ started = Len(gpus) /\ joined = started
          /\ \A t \in Idx : t < started => (rpc[t] = "returned" /\ LoopFailed(t))
    /\ \A t \in Idx : rpc[t] = "returned" => LoopFailed(t)
    /\ \A t \in Idx : t < joined => rpc[t] = "returned"
    /\ (\E t \in Idx : InLoop(t)) => exit # "exit0"

C7_Witness ==
    /\ exit = "exit0" /\ started >= 2
    /\ \E t \in Idx : EnqueueFailed(t)
    /\ \E t \in Idx : FinishFailed(t)

\* C8: a queue holds at most one submitted, not yet completed kernel; a runner
\* submits only with nothing outstanding and waits only with exactly its last
\* submission outstanding, so submissions and waits alternate; what a runner
\* waits for is on its own queue only.
C8_SerializedDispatch ==
    \A t \in Idx :
        /\ Len(pending[t]) <= 1
        /\ rpc[t] = "enqueue" => (pending[t] = <<>> /\ enqueues[t] = finishes[t])
        /\ rpc[t] = "finish" =>
              (pending[t] = <<res[t]["queue"]>> /\ enqueues[t] = finishes[t] + 1)
        /\ \A k \in 1 .. Len(pending[t]) :
              /\ pending[t][k] = res[t]["queue"]
              /\ \A u \in Idx : u # t => pending[t][k] # res[u]["queue"]

C8_Witness ==
    \E t \in Idx : rpc[t] = "finish" /\ enqueues[t] = 2 /\ finishes[t] = 1

\* C9: a failed device query of a platform (count or list) only skips that
\* platform: the step leaves the process running, keeps the devices collected
\* so far and goes on with the enumeration.
C9_DeviceQueryFailureSkipsPlatform ==
    [][(mpc \in {"device_count", "device_list"})
          => (/\ exit' = "running"
              /\ IsPrefix(gpus, gpus')
              /\ mpc' \in {"device_list", "vendor", "check_empty"})]_vars

\* C10: each object is created once, all five before the first dispatch; none
\* is released while the loop runs; a runner that returned released them once
\* each in the order buffer, kernel, program, queue, context; a runner that
\* left its lifecycle, on any path, released every object it created.
C10_ResourcesReleasedOnEveryExit ==
    \A t \in Idx :
        /\ \A j, k \in 1 .. Len(made[t]) : made[t][j] = made[t][k] => j = k
        /\ (InLoop(t) \/ enqueues[t] > 0) => Range(made[t]) = Kinds
        /\ InLoop(t) => released[t] = <<>>
        /\ rpc[t] = "returned" => released[t] = ReleaseOrder
        /\ rpc[t] \in {"returned", "threw"} => Range(made[t]) \subseteq Range(released[t])

====
